---- MODULE Spec2Model ----
(***************************************************************************)
(* Model of ref-farming/src/farm_seed.rs: the FarmSeed ledger entry, its   *)
(* balance accounting (add_amount / sub_amount), the VersionedFarmSeed     *)
(* envelope (upgrade / need_upgrade / get_ref / get_ref_mut) and the       *)
(* SeedInfo projection.                                                    *)
(*                                                                         *)
(* A Balance (u128) is a little-endian sequence of NumLimbs limbs of       *)
(* LimbBits bits each, so that the arithmetic keeps its 128-bit width.     *)
(* Option<T> is a sequence: None is <<>>, Some(x) is <<x>>.                *)
(* A String that is parsed (seed_id) is a sequence of characters.          *)
(***************************************************************************)
EXTENDS Integers, Sequences, FiniteSets, TLC

VARIABLES
    envelope,        \* the VersionedFarmSeed under test
    overflow_checks, \* build profile: does `+=` panic on overflow (TRUE) or wrap (FALSE)
    ctor,            \* history: the arguments FarmSeed::new was called with
    last,            \* the last call: its name, argument, outcome and return value
    ncalls,          \* number of calls made so far
    sum,             \* history: exact sum of a_i minus sum of b_j over the calls made
    prefixNonNeg,    \* history: every prefix sum so far was >= 0
    prefixFits,      \* history: every prefix sum so far was <= u128::MAX
    aborted          \* history: some add_amount / sub_amount call aborted

vars == <<envelope, overflow_checks, ctor, last, ncalls, sum, prefixNonNeg,
          prefixFits, aborted>>

\* Longest call sequence explored.
MaxOps == 3

----------------------------------------------------------------------------
\* Balance = u128

BalanceBits == 128
LimbBits == 16
LimbBase == 2 ^ LimbBits
NumLimbs == BalanceBits \div LimbBits

\* Option<T>
None == <<>>
Some(x) == <<x>>
is_some(o) == Len(o) = 1
unwrap_or(o, d) == IF Len(o) = 1 THEN o[1] ELSE d

\* a small number n < LimbBase written on k limbs
Small(n, k) == [i \in 1..k |-> IF i = 1 THEN n ELSE 0]

U128Zero == Small(0, NumLimbs)
U128Max == [i \in 1..NumLimbs |-> LimbBase - 1]

IsU128(a) == /\ Len(a) = NumLimbs
             /\ \A i \in 1..NumLimbs : a[i] \in 0..(LimbBase - 1)

\* a widened by one limb (exact arithmetic of the history variable `sum`)
Widen(a) == a \o <<0>>

RECURSIVE CmpFrom(_, _, _)
CmpFrom(a, b, i) ==
    IF i = 0 THEN 0
    ELSE IF a[i] > b[i] THEN 1
    ELSE IF a[i] < b[i] THEN -1
    ELSE CmpFrom(a, b, i - 1)

\* a >= b, a > b on equal-length limb sequences
Geq(a, b) == CmpFrom(a, b, Len(a)) >= 0
Gt(a, b) == CmpFrom(a, b, Len(a)) > 0

RECURSIVE AddFrom(_, _, _, _)
AddFrom(a, b, i, c) ==
    IF i > Len(a) THEN <<c>>
    ELSE LET t == a[i] + b[i] + c
         IN  <<t % LimbBase>> \o AddFrom(a, b, i + 1, t \div LimbBase)

\* a + b: the low Len(a) limbs followed by the carry out
AddLimbs(a, b) == AddFrom(a, b, 1, 0)
WrappingAdd(a, b) == SubSeq(AddLimbs(a, b), 1, Len(a))
AddOverflows(a, b) == AddLimbs(a, b)[Len(a) + 1] = 1

RECURSIVE SubFrom(_, _, _, _)
SubFrom(a, b, i, c) ==
    IF i > Len(a) THEN <<c>>
    ELSE LET t == a[i] - b[i] - c
         IN  IF t < 0 THEN <<t + LimbBase>> \o SubFrom(a, b, i + 1, 1)
             ELSE <<t>> \o SubFrom(a, b, i + 1, 0)

\* a - b: the low Len(a) limbs followed by the borrow out
SubLimbs(a, b) == SubFrom(a, b, 1, 0)
WrappingSub(a, b) == SubSeq(SubLimbs(a, b), 1, Len(a))
SubUnderflows(a, b) == SubLimbs(a, b)[Len(a) + 1] = 1

----------------------------------------------------------------------------
\* Inputs

\* arguments of add_amount / sub_amount
Amounts == { U128Zero, Small(1, NumLimbs), Small(3, NumLimbs), U128Max }

\* seed identifiers: "t", "t#3", "a#a"
SeedIds == { <<"t">>, <<"t", "#", "3">>, <<"a", "#", "a">> }

MinDeposits == { Small(100, NumLimbs) }

\* U128 (near_sdk::json_types): a newtype around u128
U128(x) == [U128 |-> x]

NftBalances == { None, Some("paras@6" :> U128(Small(1, NumLimbs))) }

FarmSeedMetadata(title, media) == [title |-> title, media |-> media]

Metadatas == { None,
               Some(FarmSeedMetadata(None, None)),
               Some(FarmSeedMetadata(Some("Title"), None)),
               Some(FarmSeedMetadata(Some(""), Some("media.png"))) }

----------------------------------------------------------------------------
\* crate::utils::parse_seed_id: split on the separator; without a separator
\* the index is the identifier itself.  Defined for identifiers with at
\* most one separator.

Separator == "#"

parse_seed_id(seed_id) ==
    LET at == { i \in 1..Len(seed_id) : seed_id[i] = Separator }
    IN  IF at = {} THEN <<seed_id, seed_id>>
        ELSE LET i == CHOOSE j \in at : \A k \in at : j <= k
             IN  <<SubSeq(seed_id, 1, i - 1), SubSeq(seed_id, i + 1, Len(seed_id))>>

----------------------------------------------------------------------------
\* FarmSeed

\* fault: the identifier is examined before the balance map
FarmSeedNew_id_first(seed_id, min_deposit, nft_balance, metadata) ==
    LET parsed == parse_seed_id(seed_id)
        seed_type == IF parsed[1] = parsed[2] THEN "FT"
                     ELSE IF is_some(nft_balance) THEN "NFT"
                     ELSE "MFT"
    IN  [ seed_id |-> seed_id, seed_type |-> seed_type, farms |-> {},
          next_index |-> 0, amount |-> U128Zero, min_deposit |-> min_deposit,
          nft_balance |-> nft_balance, metadata |-> metadata ]

\* fault: the balance map is classified but not stored
FarmSeedNew_drop_nft(seed_id, min_deposit, nft_balance, metadata) ==
    LET parsed == parse_seed_id(seed_id)
        seed_type == IF is_some(nft_balance) THEN "NFT"
                     ELSE IF parsed[1] = parsed[2] THEN "FT"
                     ELSE "MFT"
    IN  [ seed_id |-> seed_id, seed_type |-> seed_type, farms |-> {},
          next_index |-> 0, amount |-> U128Zero, min_deposit |-> min_deposit,
          nft_balance |-> None, metadata |-> metadata ]

FarmSeedNew(seed_id, min_deposit, nft_balance, metadata) ==
    LET parsed == parse_seed_id(seed_id)
        token_id == parsed[1]
        token_index == parsed[2]
        seed_type == IF is_some(nft_balance) THEN "NFT"
                     ELSE IF token_id = token_index THEN "FT"
                     ELSE "MFT"
    IN  [ seed_id |-> seed_id,
          seed_type |-> seed_type,
          farms |-> {},
          next_index |-> 0,
          amount |-> U128Zero,
          min_deposit |-> min_deposit,
          nft_balance |-> nft_balance,
          metadata |-> metadata ]

\* fault: self.amount = amount
add_amount_assign(fs, amount, checks) ==
    [ok |-> TRUE, fs |-> [fs EXCEPT !.amount = amount]]

\* self.amount += amount.  On overflow the build decides: with overflow
\* checks the addition panics before the store, without them it wraps.
add_amount(fs, amount, checks) ==
    IF AddOverflows(fs.amount, amount) /\ checks
    THEN [ok |-> FALSE, fs |-> fs]
    ELSE [ok |-> TRUE, fs |-> [fs EXCEPT !.amount = WrappingAdd(fs.amount, amount)]]

\* fault: self.amount = self.amount.saturating_sub(amount), no assertion
sub_amount_saturating(fs, amount) ==
    LET new == IF Geq(fs.amount, amount) THEN WrappingSub(fs.amount, amount) ELSE U128Zero
    IN  [ok |-> TRUE, fs |-> [fs EXCEPT !.amount = new], ret |-> Some(new)]

\* fault: no assertion, the subtraction wraps
sub_amount_unchecked(fs, amount) ==
    LET new == WrappingSub(fs.amount, amount)
    IN  [ok |-> TRUE, fs |-> [fs EXCEPT !.amount = new], ret |-> Some(new)]

\* fault: assert!(self.amount > amount)
sub_amount_strict(fs, amount) ==
    IF ~Gt(fs.amount, amount)
    THEN [ok |-> FALSE, fs |-> fs, ret |-> None]
    ELSE LET new == WrappingSub(fs.amount, amount)
         IN  [ok |-> TRUE, fs |-> [fs EXCEPT !.amount = new], ret |-> Some(new)]

\* assert!(self.amount >= amount); self.amount -= amount; self.amount
sub_amount(fs, amount) ==
    IF ~Geq(fs.amount, amount)
    THEN [ok |-> FALSE, fs |-> fs, ret |-> None]
    ELSE LET new == WrappingSub(fs.amount, amount)
         IN  [ok |-> TRUE, fs |-> [fs EXCEPT !.amount = new], ret |-> Some(new)]

----------------------------------------------------------------------------
\* VersionedFarmSeed

VersionedFarmSeedNew(seed_id, min_deposit, nft_balance, metadata) ==
    [tag |-> "V101", farm_seed |-> FarmSeedNew(seed_id, min_deposit, nft_balance, metadata)]

\* fault: the upgrade rebuilds the entry from its identity only
upgrade_rebuild(v) ==
    CASE v.tag = "V101" ->
        [tag |-> "V101",
         farm_seed |-> FarmSeedNew(v.farm_seed.seed_id, v.farm_seed.min_deposit,
                                   None, v.farm_seed.metadata)]

upgrade(v) ==
    CASE v.tag = "V101" -> [tag |-> "V101", farm_seed |-> v.farm_seed]

\* fault: the match arms are exchanged
need_upgrade_inverted(v) ==
    IF v.tag = "V101" THEN TRUE ELSE FALSE

need_upgrade(v) ==
    IF v.tag = "V101" THEN FALSE ELSE TRUE

\* fault: the match arms are exchanged
get_ref_inverted(v) ==
    IF v.tag = "V101" THEN None ELSE Some(v.farm_seed)

\* Some(entry), or None for unimplemented!()
get_ref(v) ==
    IF v.tag = "V101" THEN Some(v.farm_seed) ELSE None

get_ref_mut(v) ==
    IF v.tag = "V101" THEN Some(v.farm_seed) ELSE None

\* a store through the reference get_ref_mut returned
StoreThrough(v, fs) == [v EXCEPT !.farm_seed = fs]

----------------------------------------------------------------------------
\* SeedInfo

\* the orders in which a HashSet can be iterated
Orderings(S) ==
    { s \in [1..Cardinality(S) -> S] :
        \A i, j \in 1..Cardinality(S) : s[i] = s[j] => i = j }

seed_type_string(t) ==
    CASE t = "FT" -> "FT"
      [] t = "NFT" -> "NFT"
      [] t = "MFT" -> "MFT"

\* fault: the optional fields are copied without a default
SeedInfoFrom_passthrough(fs, order) ==
    IF is_some(fs.metadata)
    THEN [ seed_id |-> fs.seed_id, seed_type |-> seed_type_string(fs.seed_type),
           next_index |-> fs.next_index, amount |-> U128(fs.amount),
           min_deposit |-> U128(fs.min_deposit), farms |-> order,
           nft_balance |-> fs.nft_balance,
           title |-> fs.metadata[1].title, media |-> fs.metadata[1].media ]
    ELSE [ seed_id |-> fs.seed_id, seed_type |-> seed_type_string(fs.seed_type),
           next_index |-> fs.next_index, amount |-> U128(fs.amount),
           min_deposit |-> U128(fs.min_deposit), farms |-> order,
           nft_balance |-> fs.nft_balance,
           title |-> None, media |-> None ]

SeedInfoFrom(fs, order) ==
    IF is_some(fs.metadata)
    THEN LET seed_metadata == fs.metadata[1]
         IN  [ seed_id |-> fs.seed_id,
               seed_type |-> seed_type_string(fs.seed_type),
               next_index |-> fs.next_index,
               amount |-> U128(fs.amount),
               min_deposit |-> U128(fs.min_deposit),
               farms |-> order,
               nft_balance |-> fs.nft_balance,
               title |-> Some(unwrap_or(seed_metadata.title, "")),
               media |-> Some(unwrap_or(seed_metadata.media, "")) ]
    ELSE [ seed_id |-> fs.seed_id,
           seed_type |-> seed_type_string(fs.seed_type),
           next_index |-> fs.next_index,
           amount |-> U128(fs.amount),
           min_deposit |-> U128(fs.min_deposit),
           farms |-> order,
           nft_balance |-> fs.nft_balance,
           title |-> Some(""),
           media |-> Some("") ]

----------------------------------------------------------------------------
\* The state machine: one envelope, constructed once, then called.

Call(op, arg, ok, ret) == [op |-> op, arg |-> arg, ok |-> ok, ret |-> ret]

Init ==
    /\ \E seed_id \in SeedIds, min_deposit \in MinDeposits,
          nft_balance \in NftBalances, metadata \in Metadatas :
          /\ envelope = VersionedFarmSeedNew(seed_id, min_deposit, nft_balance, metadata)
          /\ ctor = [ seed_id |-> seed_id, min_deposit |-> min_deposit,
                      nft_balance |-> nft_balance, metadata |-> metadata ]
    /\ overflow_checks \in BOOLEAN
    /\ last = Call("new", None, TRUE, None)
    /\ ncalls = 0
    /\ sum = Widen(U128Zero)
    /\ prefixNonNeg = TRUE
    /\ prefixFits = TRUE
    /\ aborted = FALSE

\* history of the exact sum: one more add_amount(a) was called
SumAfterAdd(a) ==
    IF prefixNonNeg THEN SubSeq(AddLimbs(sum, Widen(a)), 1, NumLimbs + 1) ELSE sum

\* history of the exact sum: one more sub_amount(b) was called
SumAfterSub(b) ==
    IF prefixNonNeg /\ Geq(sum, Widen(b))
    THEN SubSeq(SubLimbs(sum, Widen(b)), 1, NumLimbs + 1)
    ELSE sum

\* envelope.get_ref_mut().add_amount(amount)
AddAmount ==
    /\ ncalls < MaxOps
    /\ \E amount \in Amounts :
          LET ref == get_ref_mut(envelope)
              r == add_amount(ref[1], amount, overflow_checks)
          IN  /\ envelope' = IF is_some(ref) /\ r.ok
                             THEN StoreThrough(envelope, r.fs) ELSE envelope
              /\ last' = Call("add_amount", Some(amount), is_some(ref) /\ r.ok, None)
              /\ aborted' = (aborted \/ ~(is_some(ref) /\ r.ok))
              /\ sum' = SumAfterAdd(amount)
              /\ prefixFits' = (prefixFits /\ SumAfterAdd(amount)[NumLimbs + 1] = 0)
    /\ ncalls' = ncalls + 1
    /\ UNCHANGED <<overflow_checks, ctor, prefixNonNeg>>

\* envelope.get_ref_mut().sub_amount(amount)
SubAmount ==
    /\ ncalls < MaxOps
    /\ \E amount \in Amounts :
          LET ref == get_ref_mut(envelope)
              r == sub_amount(ref[1], amount)
          IN  /\ envelope' = IF is_some(ref) /\ r.ok
                             THEN StoreThrough(envelope, r.fs) ELSE envelope
              /\ last' = Call("sub_amount", Some(amount), is_some(ref) /\ r.ok,
                              IF is_some(ref) THEN r.ret ELSE None)
              /\ aborted' = (aborted \/ ~(is_some(ref) /\ r.ok))
              /\ sum' = SumAfterSub(amount)
              /\ prefixNonNeg' = (prefixNonNeg /\ Geq(sum, Widen(amount)))
    /\ ncalls' = ncalls + 1
    /\ UNCHANGED <<overflow_checks, ctor, prefixFits>>

\* envelope = envelope.upgrade()
Upgrade ==
    /\ ncalls < MaxOps
    /\ envelope' = upgrade(envelope)
    /\ last' = Call("upgrade", None, TRUE, None)
    /\ ncalls' = ncalls + 1
    /\ UNCHANGED <<overflow_checks, ctor, sum, prefixNonNeg, prefixFits, aborted>>

\* envelope.need_upgrade()
NeedUpgrade ==
    /\ ncalls < MaxOps
    /\ last' = Call("need_upgrade", None, TRUE, Some(need_upgrade(envelope)))
    /\ ncalls' = ncalls + 1
    /\ UNCHANGED <<envelope, overflow_checks, ctor, sum, prefixNonNeg, prefixFits, aborted>>

\* envelope.get_ref()
GetRef ==
    /\ ncalls < MaxOps
    /\ last' = Call("get_ref", None, is_some(get_ref(envelope)), get_ref(envelope))
    /\ ncalls' = ncalls + 1
    /\ UNCHANGED <<envelope, overflow_checks, ctor, sum, prefixNonNeg, prefixFits, aborted>>

\* envelope.get_ref_mut(), nothing stored through it
GetRefMut ==
    /\ ncalls < MaxOps
    /\ last' = Call("get_ref_mut", None, is_some(get_ref_mut(envelope)), get_ref_mut(envelope))
    /\ ncalls' = ncalls + 1
    /\ UNCHANGED <<envelope, overflow_checks, ctor, sum, prefixNonNeg, prefixFits, aborted>>

\* SeedInfo::from(envelope.get_ref())
View ==
    /\ ncalls < MaxOps
    /\ LET ref == get_ref(envelope)
       IN  IF is_some(ref)
           THEN \E order \in Orderings(ref[1].farms) :
                    last' = Call("seed_info", None, TRUE, Some(SeedInfoFrom(ref[1], order)))
           ELSE last' = Call("seed_info", None, FALSE, None)
    /\ ncalls' = ncalls + 1
    /\ UNCHANGED <<envelope, overflow_checks, ctor, sum, prefixNonNeg, prefixFits, aborted>>

Next ==
    \/ AddAmount
    \/ SubAmount
    \/ Upgrade
    \/ NeedUpgrade
    \/ GetRef
    \/ GetRefMut
    \/ View

Spec == Init /\ [][Next]_vars

\* the entry the envelope wraps
Entry == envelope.farm_seed

TypeOK ==
    /\ envelope.tag = "V101"
    /\ IsU128(Entry.amount)
    /\ ncalls \in 0..MaxOps

----------------------------------------------------------------------------
\* Properties

Nonzero(a) == a # U128Zero

\* C1 (as stated): whenever every prefix sum of additions minus subtractions
\* has stayed non-negative, no call has aborted and amount is the exact sum.
C1_ExactSumUnbounded ==
    prefixNonNeg => (~aborted /\ Widen(Entry.amount) = sum)

\* C1 (amended): whenever every prefix sum has stayed within 0 .. 2^128 - 1,
\* no call has aborted and amount is the exact sum of the additions minus
\* the sum of the subtractions.
C1_ExactSum ==
    (prefixNonNeg /\ prefixFits) => (~aborted /\ Widen(Entry.amount) = sum)

C1_Witness ==
    /\ prefixNonNeg /\ prefixFits
    /\ last.op = "sub_amount" /\ last.ok /\ Nonzero(last.arg[1])
    /\ Nonzero(Entry.amount)
    /\ ncalls >= 2

\* C2: a sub_amount(x) call made when amount < x aborts, returns nothing and
\* leaves the whole record as it was.
C2_SubAbortKeepsRecord ==
    [][ (last'.op = "sub_amount" /\ Gt(last'.arg[1], Entry.amount))
          => (~last'.ok /\ last'.ret = None /\ envelope' = envelope) ]_vars

C2_Witness ==
    /\ last.op = "sub_amount" /\ ~last.ok
    /\ Nonzero(Entry.amount)

\* C3: amount is always a value of 0 .. 2^128 - 1, and a subtraction is
\* performed only when the guard amount >= x held before it, so it never
\* borrows and never increases amount.
C3_NeverBelowZero ==
    /\ [] IsU128(Entry.amount)
    /\ [][ (last'.op = "sub_amount" /\ Entry'.amount # Entry.amount)
             => /\ Geq(Entry.amount, last'.arg[1])
                /\ ~SubUnderflows(Entry.amount, last'.arg[1])
                /\ Geq(Entry.amount, Entry'.amount) ]_vars
    /\ [][ (last'.op = "sub_amount" /\ ~Geq(Entry.amount, last'.arg[1]))
             => Entry'.amount = Entry.amount ]_vars

C3_Witness ==
    /\ aborted
    /\ last.op = "sub_amount" /\ last.ok /\ Nonzero(last.arg[1])

\* C4: a sub_amount(x) call made when x <= amount succeeds, sets amount to
\* the old amount minus x, returns the new amount and changes no other
\* field; sub_amount(amount) returns 0.
C4_SubSuccess ==
    [][ (last'.op = "sub_amount" /\ Geq(Entry.amount, last'.arg[1]))
          => /\ last'.ok
             /\ last'.ret = Some(Entry'.amount)
             /\ AddLimbs(Entry'.amount, last'.arg[1]) = Widen(Entry.amount)
             /\ envelope' = StoreThrough(envelope, [Entry EXCEPT !.amount = Entry'.amount])
             /\ (last'.arg[1] = Entry.amount => last'.ret = Some(U128Zero)) ]_vars

C4_Witness ==
    /\ last.op = "sub_amount" /\ last.ok
    /\ Nonzero(last.arg[1])
    /\ last.ret = Some(U128Zero)

\* C5: FarmSeed::new gives NFT when a balance map is supplied, whatever the
\* identifier; otherwise FT when parse_seed_id yields equal parts and MFT
\* when it yields different parts.
C5_Classification ==
    ncalls = 0 =>
        LET parsed == parse_seed_id(ctor.seed_id)
        IN  /\ Entry.seed_type \in {"FT", "MFT", "NFT"}
            /\ is_some(ctor.nft_balance) => Entry.seed_type = "NFT"
            /\ (~is_some(ctor.nft_balance) /\ parsed[1] = parsed[2])
                  => Entry.seed_type = "FT"
            /\ (~is_some(ctor.nft_balance) /\ parsed[1] # parsed[2])
                  => Entry.seed_type = "MFT"

C5_Witness ==
    /\ ncalls = 0
    /\ is_some(ctor.nft_balance)
    /\ parse_seed_id(ctor.seed_id)[1] = parse_seed_id(ctor.seed_id)[2]
    /\ Entry.seed_type = "NFT"

\* C6: in every reachable state seed_type is NFT exactly when nft_balance
\* is present.
C6_NftIffBalance ==
    (Entry.seed_type = "NFT") <=> is_some(Entry.nft_balance)

C6_Witness ==
    /\ Entry.seed_type = "NFT" /\ is_some(Entry.nft_balance)
    /\ last.op = "get_ref_mut"
    /\ Nonzero(Entry.amount)

\* C7: seed_id and seed_type keep the values FarmSeed::new gave them; no
\* call changes either.
C7_IdentityImmutable ==
    /\ [] ( /\ Entry.seed_id = ctor.seed_id
            /\ Entry.seed_type =
                 FarmSeedNew(ctor.seed_id, ctor.min_deposit,
                             ctor.nft_balance, ctor.metadata).seed_type )
    /\ [][ /\ Entry'.seed_id = Entry.seed_id
           /\ Entry'.seed_type = Entry.seed_type ]_vars

C7_Witness ==
    /\ last.op = "upgrade"
    /\ aborted
    /\ Entry.seed_type = "NFT"
    /\ Nonzero(Entry.amount)

\* C8: upgrade is idempotent and keeps the wrapped entry; need_upgrade is
\* false after upgrade and on a freshly constructed envelope.
C8_UpgradeIdempotent ==
    /\ [] ( /\ upgrade(upgrade(envelope)) = upgrade(envelope)
            /\ upgrade(envelope).farm_seed = envelope.farm_seed
            /\ ~need_upgrade(upgrade(envelope))
            /\ (ncalls = 0 => ~need_upgrade(envelope))
            /\ (last.op = "upgrade" => ~need_upgrade(envelope))
            /\ (last.op = "need_upgrade" => last.ret = Some(FALSE)) )
    /\ [][ last'.op = "upgrade" => envelope'.farm_seed = envelope.farm_seed ]_vars

C8_Witness ==
    /\ last.op = "upgrade"
    /\ Nonzero(Entry.amount)
    /\ is_some(Entry.metadata)

\* C9: get_ref and get_ref_mut return the wrapped entry exactly when the
\* envelope carries V101, that is exactly when need_upgrade is false; after
\* upgrade they always return it.
C9_RefIffCurrent ==
    /\ is_some(get_ref(envelope)) <=> (envelope.tag = "V101")
    /\ is_some(get_ref_mut(envelope)) <=> (envelope.tag = "V101")
    /\ is_some(get_ref(envelope)) <=> ~need_upgrade(envelope)
    /\ is_some(get_ref_mut(envelope)) <=> ~need_upgrade(envelope)
    /\ is_some(get_ref(envelope)) => get_ref(envelope) = Some(Entry)
    /\ is_some(get_ref_mut(envelope)) => get_ref_mut(envelope) = Some(Entry)
    /\ get_ref(upgrade(envelope)) = Some(Entry)
    /\ get_ref_mut(upgrade(envelope)) = Some(Entry)
    /\ (last.op \in {"get_ref", "get_ref_mut", "seed_info"} => last.ok)
    /\ (last.op \in {"get_ref", "get_ref_mut"} => last.ret = Some(Entry))

C9_Witness ==
    /\ last.op = "get_ref" /\ last.ok
    /\ last.ret = Some(Entry)
    /\ Nonzero(Entry.amount)

\* C10: the projection's title and media are never absent: each is the
\* metadata field when metadata and the field are present and the empty
\* string otherwise; projecting does not change the entry.
C10_TitleMediaDefault ==
    /\ [] ( (last.op = "seed_info" /\ last.ok) =>
              LET info == last.ret[1]
                  m == Entry.metadata
              IN  /\ is_some(info.title) /\ is_some(info.media)
                  /\ info.title[1] = IF is_some(m) /\ is_some(m[1].title)
                                     THEN m[1].title[1] ELSE ""
                  /\ info.media[1] = IF is_some(m) /\ is_some(m[1].media)
                                     THEN m[1].media[1] ELSE "" )
    /\ [][ last'.op = "seed_info" => envelope' = envelope ]_vars

C10_Witness ==
    /\ last.op = "seed_info" /\ last.ok
    /\ is_some(Entry.metadata)
    /\ Entry.metadata[1].title = Some("Title")
    /\ Entry.metadata[1].media = None
    /\ last.ret[1].title = Some("Title")
    /\ last.ret[1].media = Some("")

====
